---------------------------- MODULE Spec2Model ----------------------------
(***************************************************************************)
(* State-machine model of gomock's expected-call engine                    *)
(* (src/gomock/call.go): the call-count bounds of a Call, the prerequisite *)
(* relation wired by After / InOrder, and the matches / call protocol a    *)
(* controller drives at invocation time.                                   *)
(***************************************************************************)
EXTENDS Integers, Sequences, FiniteSets, TLC

(***************************************************************************)
(* Bounds of the model.                                                    *)
(***************************************************************************)
\* Number of Call objects built by the test.
NumExpect == 3
\* Largest n handed to MinTimes / MaxTimes / Times.
MaxTimesArg == 2
\* Largest numCalls the controller is driven to.
MaxNumCalls == 3
\* Largest length of one Call's preReqs slice.
MaxPreReqs == 2
\* Largest number of actual arguments of one invocation.
MaxArgs == 2
\* Largest number of calls handed to one InOrder.
MaxInOrder == 3
\* Largest number of declaration calls of a test that goes on to invoke.
MaxDecl == 2
\* Largest number of nested invocations the controller is followed through.
MaxDepth == 2
\* Largest number of values handed to one Return.
MaxRets == 2

(***************************************************************************)
(* Program constants.                                                      *)
(***************************************************************************)
\* call.go:50 and call.go:59: "1e8 // close enough to infinity".
Infinity == 100000000

Expectations == 1..NumExpect
TimesArgs == 0..MaxTimesArg
Values == {1, 2}

\* All sequences over S of length lo..hi.
SeqsOf(S, lo, hi) == UNION {[1..k -> S] : k \in lo..hi}

ActualArgs == SeqsOf(Values, 0, MaxArgs)
InOrderArgs == SeqsOf(Expectations, 0, MaxInOrder)

(***************************************************************************)
(* A Matcher is modelled by the set of values its Matches accepts.  The    *)
(* args field of a Call is fixed when the Call is built and never written  *)
(* by call.go.  The expectations carry one exact matcher, an any-matcher   *)
(* followed by an exact one, two exact matchers, and none.                 *)
(***************************************************************************)
args(c) ==
    CASE c % 4 = 1 -> << {1} >>
      [] c % 4 = 2 -> << Values, {2} >>
      [] c % 4 = 3 -> << {1}, {2} >>
      [] OTHER     -> << >>

\* Invocation a has c's arity and every Matcher of c accepts its argument.
ArgsFit(c, a) ==
    /\ Len(a) = Len(args(c))
    /\ \A i \in 1..Len(a) : a[i] \in args(c)[i]

\* The kinds of the parameters of expectation c's method (Call.methodType):
\* a pointer to an integer, an interface, or a plain value.
paramKinds(c) ==
    CASE c % 4 = 1 -> << "ptr" >>
      [] c % 4 = 2 -> << "iface", "value" >>
      [] c % 4 = 3 -> << "ptr", "ptr" >>
      [] OTHER     -> << >>

\* The argument indices SetArg is tried with: one below and one above the
\* positions a method can have.
SetArgIndices == (0 - 1)..MaxArgs

\* A value with its dynamic type.
Typed(t, v) == [type |-> t, val |-> v]

\* The values SetArg is tried with: two integers and a string.
SetValues == {Typed("int", 7), Typed("int", 8), Typed("string", 7)}

\* No binding at an index of Call.setArgs.
Unset == Typed("none", 0)

\* The types of the results of expectation c's method (Call.methodType): an
\* integer, the empty interface, a receive-only channel.
outTypes(c) ==
    CASE c % 4 = 1 -> << "int" >>
      [] c % 4 = 2 -> << "iface", "recv" >>
      [] c % 4 = 3 -> << >>
      [] OTHER     -> << "int" >>

\* The values Return is tried with: an integer, the untyped nil, and a
\* bidirectional channel; and the lists of them.
RetValues == {Typed("int", 5), Typed("nil", 0), Typed("chan", 5)}

ReturnArgs == SeqsOf(RetValues, 0, MaxRets)

\* The zero reflect.Value: the doFunc of a Call that Do was not called on.
InvalidFunc == 0

\* The functions given to Do: function d invokes the mocked method of
\* expectation d, the last one invokes nothing.
Funcs == 1..(NumExpect + 1)

\* The nil action, and the closure call builds around doFunc and doArgs.
Closure(c, f, doArgs) == [c |-> c, fn |-> f, doArgs |-> doArgs]

NilAction == Closure(0, InvalidFunc, << >>)

VARIABLES
    minCalls,   \* Call.minCalls, per expectation
    maxCalls,   \* Call.maxCalls, per expectation
    numCalls,   \* Call.numCalls, per expectation
    preReqs,    \* Call.preReqs, per expectation: a sequence of expectations
    phase,      \* "declare" while the test sets expectations up, then "invoke"
    failed,     \* the reporter's Fatalf has been called (the test is halted)
    ndecl,      \* declaration calls made so far by a test that goes on to invoke
    last,       \* the most recent operation and what it returned
    hist,       \* history: the edges declared, and whether prerequisites were
                \* dropped from an expectation that had not been called yet
    doFunc,     \* Call.doFunc, per expectation: the function given to Do
    setArgs,    \* Call.setArgs, per expectation: argument index -> bound value
    rets,       \* Call.rets, per expectation: the declared return values
    mem,        \* the variables that pointer arguments point at, by address
    action,     \* the deferred action the most recent call returned
    ran,        \* per expectation: how often its doFunc has been run
    want,       \* the mocked method a running doFunc is invoking, if any
    lock,       \* the controller's mutex is held
    stack       \* the controller's invocations in progress, innermost last

vars == <<minCalls, maxCalls, numCalls, preReqs, phase, failed, ndecl, last,
          hist, doFunc, setArgs, rets, mem, action, ran, want, lock, stack>>

\* The error value of matches: kind "nil" is the nil error.
Err(kind, idx) == [kind |-> kind, idx |-> idx]
NoErr == Err("nil", 0)

\* An operation and what it returned: err is the error of matches, pre the
\* slice of dropPrereqs, rets the return values of call.
Op(name, c, n, err, pre) ==
    [op |-> name, c |-> c, n |-> n, err |-> err, pre |-> pre, rets |-> << >>]

(***************************************************************************)
(* State after construction: every Call starts with bounds [1, 1], no      *)
(* calls made and no prerequisites.                                        *)
(***************************************************************************)
Init ==
    /\ minCalls = [c \in Expectations |-> 1]
    /\ maxCalls = [c \in Expectations |-> 1]
    /\ numCalls = [c \in Expectations |-> 0]
    /\ preReqs = [c \in Expectations |-> << >>]
    /\ phase = "declare"
    /\ failed = FALSE
    /\ ndecl = 0
    /\ last = Op("new", 0, 0, NoErr, << >>)
    /\ hist = [wired |-> [c \in Expectations |-> << >>], early |-> FALSE]
    /\ doFunc = [c \in Expectations |-> InvalidFunc]
    /\ setArgs = [c \in Expectations |-> [n \in 0..(MaxArgs - 1) |-> Unset]]
    /\ rets = [c \in Expectations |-> << >>]
    /\ mem = [p \in Values |-> Typed("int", 0)]
    /\ action = NilAction
    /\ ran = [c \in Expectations |-> 0]
    /\ want = 0
    /\ lock = FALSE
    /\ stack = << >>

\* Declaration code runs until the reporter halts it or invocation begins.
Declaring == phase = "declare" /\ ~failed

(***************************************************************************)
(* Bound declaration: call.go:48-72, 116-119.                              *)
(***************************************************************************)
AnyTimesOne(c) ==
    /\ Declaring
    /\ minCalls' = [minCalls EXCEPT ![c] = 0]
    /\ maxCalls' = [maxCalls EXCEPT ![c] = 1]
    /\ last' = Op("AnyTimes", c, 0, NoErr, << >>)
    /\ UNCHANGED <<numCalls, preReqs, phase, failed>>

AnyTimes(c) ==
    /\ Declaring
    /\ minCalls' = [minCalls EXCEPT ![c] = 0]
    /\ maxCalls' = [maxCalls EXCEPT ![c] = Infinity]
    /\ last' = Op("AnyTimes", c, 0, NoErr, << >>)
    /\ UNCHANGED <<numCalls, preReqs, phase, failed>>

\* The bounds of expectation c as one value.
Bounds(c) == [min |-> minCalls[c], max |-> maxCalls[c]]

\* A plausible slip: MinTimes leaves the upper bound alone.
MinTimesOnPlain(b, n) == [min |-> n, max |-> b.max]

\* MinTimes on bounds b: call.go:56-62.
MinTimesOn(b, n) == [min |-> n, max |-> IF b.max = 1 THEN Infinity ELSE b.max]

\* MaxTimes on bounds b: call.go:66-72.
MaxTimesOn(b, n) == [min |-> IF b.min = 1 THEN 0 ELSE b.min, max |-> n]

MinTimes(c, n) ==
    /\ Declaring
    /\ minCalls' = [minCalls EXCEPT ![c] = MinTimesOn(Bounds(c), n).min]
    /\ maxCalls' = [maxCalls EXCEPT ![c] = MinTimesOn(Bounds(c), n).max]
    /\ last' = Op("MinTimes", c, n, NoErr, << >>)
    /\ UNCHANGED <<numCalls, preReqs, phase, failed>>

MaxTimes(c, n) ==
    /\ Declaring
    /\ maxCalls' = [maxCalls EXCEPT ![c] = MaxTimesOn(Bounds(c), n).max]
    /\ minCalls' = [minCalls EXCEPT ![c] = MaxTimesOn(Bounds(c), n).min]
    /\ last' = Op("MaxTimes", c, n, NoErr, << >>)
    /\ UNCHANGED <<numCalls, preReqs, phase, failed>>

TimesMinOnly(c, n) ==
    /\ Declaring
    /\ minCalls' = [minCalls EXCEPT ![c] = n]
    /\ last' = Op("Times", c, n, NoErr, << >>)
    /\ UNCHANGED <<maxCalls, numCalls, preReqs, phase, failed>>

Times(c, n) ==
    /\ Declaring
    /\ minCalls' = [minCalls EXCEPT ![c] = n]
    /\ maxCalls' = [maxCalls EXCEPT ![c] = n]
    /\ last' = Op("Times", c, n, NoErr, << >>)
    /\ UNCHANGED <<numCalls, preReqs, phase, failed>>

(***************************************************************************)
(* The reporter's Fatalf (TestReporter, satisfied by *testing.T): it marks *)
(* the test failed and halts the goroutine that is declaring, so the       *)
(* statements that follow the Fatalf in After are not run.                 *)
(***************************************************************************)
Fatalf(pr) == [preReqs |-> pr, failed |-> TRUE]

(***************************************************************************)
(* Ordering: call.go:154-175, 262-267.  The operators take the graph pr    *)
(* (expectation -> its preReqs slice) so that InOrder can thread it        *)
(* through its successive After calls.                                     *)
(***************************************************************************)
\* A plausible slip: only the direct prerequisites are looked at.
isPreReqDirect(pr, c, other) ==
    \E i \in 1..Len(pr[c]) : other = pr[c][i]

\* isPreReq: other is a direct or indirect prerequisite to c.
RECURSIVE isPreReq(_, _, _)
isPreReq(pr, c, other) ==
    \E i \in 1..Len(pr[c]) : other = pr[c][i] \/ isPreReq(pr, pr[c][i], other)

\* A plausible slip: the self-prerequisite test is missing.
AfterNoSelfCheck(pr, c, preReq) ==
    IF isPreReq(pr, preReq, c)
    THEN Fatalf(pr)
    ELSE [preReqs |-> [pr EXCEPT ![c] = Append(@, preReq)], failed |-> FALSE]

\* c.After(preReq) on graph pr: the graph afterwards and whether Fatalf ran.
AfterOn(pr, c, preReq) ==
    IF c = preReq
    THEN Fatalf(pr)
    ELSE IF isPreReq(pr, preReq, c)
         THEN Fatalf(pr)
         ELSE [preReqs |-> [pr EXCEPT ![c] = Append(@, preReq)], failed |-> FALSE]

\* A plausible slip: the loop orders each call before its predecessor.
RECURSIVE InOrderReversed(_, _, _)
InOrderReversed(pr, calls, i) ==
    IF i > Len(calls)
    THEN [preReqs |-> pr, failed |-> FALSE]
    ELSE LET r == AfterOn(pr, calls[i - 1], calls[i])
         IN  IF r.failed THEN r ELSE InOrderReversed(r.preReqs, calls, i + 1)

\* InOrder's loop from index i (1-based; calls[i] of the code is calls[i+1]).
RECURSIVE InOrderFrom(_, _, _)
InOrderFrom(pr, calls, i) ==
    IF i > Len(calls)
    THEN [preReqs |-> pr, failed |-> FALSE]
    ELSE LET r == AfterOn(pr, calls[i], calls[i - 1])
         IN  IF r.failed THEN r ELSE InOrderFrom(r.preReqs, calls, i + 1)

\* The preReqs slices stay within the model's bound.
WithinPreReqs(pr) == \A c \in Expectations : Len(pr[c]) <= MaxPreReqs

After(c, preReq) ==
    /\ Declaring
    /\ LET r == AfterOn(preReqs, c, preReq)
       IN  /\ WithinPreReqs(r.preReqs)
           /\ preReqs' = r.preReqs
           /\ failed' = r.failed
    /\ last' = Op("After", c, preReq, NoErr, << >>)
    /\ UNCHANGED <<minCalls, maxCalls, numCalls, phase>>

InOrder(calls) ==
    /\ Declaring
    /\ LET r == InOrderFrom(preReqs, calls, 2)
       IN  /\ WithinPreReqs(r.preReqs)
           /\ preReqs' = r.preReqs
           /\ failed' = r.failed
    /\ last' = Op("InOrder", 0, Len(calls), NoErr, << >>)
    /\ UNCHANGED <<minCalls, maxCalls, numCalls, phase>>

\* A plausible slip: the slice is returned but not cleared.
dropPrereqsKeep(c) ==
    /\ ~failed
    /\ preReqs' = preReqs
    /\ last' = Op("dropPrereqs", c, 0, NoErr, preReqs[c])
    /\ UNCHANGED <<minCalls, maxCalls, numCalls, phase, failed>>

\* dropPrereqs: call.go:220-226; the controller may call it at any time.
dropPrereqs(c) ==
    /\ ~failed
    /\ preReqs' = [preReqs EXCEPT ![c] = << >>]
    /\ last' = Op("dropPrereqs", c, 0, NoErr, preReqs[c])
    /\ UNCHANGED <<minCalls, maxCalls, numCalls, phase, failed>>

(***************************************************************************)
(* Satisfaction predicates: call.go:177-185.                               *)
(***************************************************************************)
\* A plausible slip: one call more than the minimum is asked for.
satisfiedStrict(c) == numCalls[c] > minCalls[c]

satisfied(c) == numCalls[c] >= minCalls[c]

\* A plausible slip: the maximum itself does not exhaust the call.
exhaustedStrict(c) == numCalls[c] > maxCalls[c]

exhausted(c) == numCalls[c] >= maxCalls[c]

(***************************************************************************)
(* matches: call.go:198-218.  Argument indices in the error are the        *)
(* code's 0-based ones; a prerequisite error carries the prerequisite.     *)
(***************************************************************************)
\* The loop of call.go:203-208 from position i: the first position (1-based)
\* whose Matcher rejects its argument, Len(m) + 1 if none.
RECURSIVE FirstBadArg(_, _, _)
FirstBadArg(m, a, i) ==
    IF i > Len(m) THEN Len(m) + 1
    ELSE IF a[i] \notin m[i] THEN i
    ELSE FirstBadArg(m, a, i + 1)

\* A plausible slip: the loop returns nil at the first satisfied prerequisite.
FirstUnsatisfiedHead(pre, j) ==
    IF j > Len(pre) THEN Len(pre) + 1
    ELSE IF ~satisfied(pre[j]) THEN j
    ELSE Len(pre) + 1

\* The loop of call.go:211-215 from position j: the first position of the
\* slice pre that holds an unsatisfied prerequisite, Len(pre) + 1 if none.
RECURSIVE FirstUnsatisfied(_, _)
FirstUnsatisfied(pre, j) ==
    IF j > Len(pre) THEN Len(pre) + 1
    ELSE IF ~satisfied(pre[j]) THEN j
    ELSE FirstUnsatisfied(pre, j + 1)

\* A plausible slip: only too few arguments are an arity error.
matchesTooFewOnly(c, a) ==
    LET m == args(c)
        i0 == FirstBadArg(m, a, 1)
        j0 == FirstUnsatisfied(preReqs[c], 1)
    IN  IF Len(a) < Len(m) THEN Err("arity", Len(a))
        ELSE IF i0 <= Len(m) THEN Err("arg", i0 - 1)
        ELSE IF j0 <= Len(preReqs[c]) THEN Err("prereq", preReqs[c][j0])
        ELSE NoErr

\* A plausible slip: the prerequisites are checked before the arguments.
matchesPrereqFirst(c, a) ==
    LET m == args(c)
        i0 == FirstBadArg(m, a, 1)
        j0 == FirstUnsatisfied(preReqs[c], 1)
    IN  IF Len(a) # Len(m) THEN Err("arity", Len(a))
        ELSE IF j0 <= Len(preReqs[c]) THEN Err("prereq", preReqs[c][j0])
        ELSE IF i0 <= Len(m) THEN Err("arg", i0 - 1)
        ELSE NoErr

matches(c, a) ==
    LET m == args(c)
        i0 == FirstBadArg(m, a, 1)
        j0 == FirstUnsatisfied(preReqs[c], 1)
    IN  IF Len(a) # Len(m) THEN Err("arity", Len(a))
        ELSE IF i0 <= Len(m) THEN Err("arg", i0 - 1)
        ELSE IF j0 <= Len(preReqs[c]) THEN Err("prereq", preReqs[c][j0])
        ELSE NoErr

\* The controller asks whether invocation a matches expectation c.
Matches(c, a) ==
    /\ phase = "invoke"
    /\ last' = Op("matches", c, Len(a), matches(c, a), << >>)
    /\ UNCHANGED <<minCalls, maxCalls, numCalls, preReqs, phase, failed>>

(***************************************************************************)
(* Actions: call.go:74-80, 121-152.                                        *)
(***************************************************************************)
Do(c, f) ==
    /\ Declaring
    /\ doFunc' = [doFunc EXCEPT ![c] = f]
    /\ last' = Op("Do", c, f, NoErr, << >>)
    /\ UNCHANGED <<minCalls, maxCalls, numCalls, preReqs, phase, failed,
                   setArgs, rets>>

\* c.SetArg(n, v) on the bindings sa of c: the bindings afterwards and whether
\* Fatalf ran.
SetArgOn(sa, c, n, v) ==
    IF n < 0 \/ n >= Len(paramKinds(c))
    THEN [setArgs |-> sa, failed |-> TRUE]
    ELSE IF paramKinds(c)[n + 1] = "ptr" /\ v.type # "int"
    THEN [setArgs |-> sa, failed |-> TRUE]
    ELSE IF paramKinds(c)[n + 1] \notin {"ptr", "iface"}
    THEN [setArgs |-> sa, failed |-> TRUE]
    ELSE [setArgs |-> [sa EXCEPT ![n] = v], failed |-> FALSE]

SetArg(c, n, v) ==
    /\ Declaring
    /\ LET r == SetArgOn(setArgs[c], c, n, v)
       IN  /\ setArgs' = [setArgs EXCEPT ![c] = r.setArgs]
           /\ failed' = r.failed
    /\ last' = Op("SetArg", c, n, NoErr, << >>)
    /\ UNCHANGED <<minCalls, maxCalls, numCalls, preReqs, phase, doFunc, rets>>

(***************************************************************************)
(* Return: call.go:82-114.  The values are checked against the result      *)
(* types of the method; a value of an assignable but different type is     *)
(* stored as a value of the result type, an interface result keeping the   *)
(* value's own type.  A nil slice of rets is the empty sequence.           *)
(***************************************************************************)
\* reflect's got.AssignableTo(want) on the types of the model.
AssignableTo(got, wt) ==
    \/ got = wt
    \/ wt = "iface"
    \/ got = "chan" /\ wt = "recv"

\* The kinds of call.go:94: nil is a value of these types.
Nillable(wt) == wt \in {"iface", "recv", "chan"}

\* Value ret is accepted for a result of type wt (call.go:89-109).
RetFits(ret, wt) ==
    \/ ret.type = wt
    \/ ret.type = "nil" /\ Nillable(wt)
    \/ ret.type # "nil" /\ AssignableTo(ret.type, wt)

\* What rets[i] holds after the loop body: call.go:101-105.
RetStored(ret, wt) ==
    IF ret.type = wt \/ ret.type = "nil" \/ wt = "iface"
    THEN ret
    ELSE Typed(wt, ret.val)

\* c.Return(r...): the rets of c afterwards and whether Fatalf ran.
ReturnOn(old, c, r) ==
    IF Len(r) # Len(outTypes(c))
    THEN [rets |-> old, failed |-> TRUE]
    ELSE IF \E i \in 1..Len(r) : ~RetFits(r[i], outTypes(c)[i])
    THEN [rets |-> old, failed |-> TRUE]
    ELSE [rets |-> [i \in 1..Len(r) |-> RetStored(r[i], outTypes(c)[i])],
          failed |-> FALSE]

Return(c, r) ==
    /\ Declaring
    /\ LET x == ReturnOn(rets[c], c, r)
       IN  /\ rets' = [rets EXCEPT ![c] = x.rets]
           /\ failed' = x.failed
    /\ last' = Op("Return", c, Len(r), NoErr, << >>)
    /\ UNCHANGED <<minCalls, maxCalls, numCalls, preReqs, phase, doFunc, setArgs>>

(***************************************************************************)
(* call: call.go:228-260.  The counter is incremented, the action is       *)
(* packaged, and the bindings of setArgs are written through the actual    *)
(* arguments in the order the map is ranged over, which is any order.  A   *)
(* write that reflect refuses (no such argument, a value of another type   *)
(* than the variable) panics: the test ends there.  Actual arguments are   *)
(* the addresses of variables; nil is not among them.                      *)
(***************************************************************************)
\* The indices that have a binding in sa.
Bound(sa) == {n \in DOMAIN sa : sa[n] # Unset}

\* The orders in which a range over the map sa can visit its keys.
RangeOrders(sa) ==
    {ord \in SeqsOf(Bound(sa), Cardinality(Bound(sa)), Cardinality(Bound(sa))) :
        \A i, j \in 1..Len(ord) : i # j => ord[i] # ord[j]}

\* The loop of call.go:245-247 over the keys ord from position k, on memory m.
RECURSIVE SetThrough(_, _, _, _, _)
SetThrough(m, sa, a, ord, k) ==
    IF k > Len(ord) THEN [mem |-> m, panic |-> FALSE]
    ELSE IF ord[k] >= Len(a) THEN [mem |-> m, panic |-> TRUE]
    ELSE IF sa[ord[k]].type # m[a[ord[k] + 1]].type THEN [mem |-> m, panic |-> TRUE]
    ELSE SetThrough([m EXCEPT ![a[ord[k] + 1]] = sa[ord[k]]], sa, a, ord, k + 1)

\* reflect.Zero(t).Interface(): the zero value of an interface type is nil.
ZeroOf(t) == IF t = "iface" THEN Typed("nil", 0) ELSE Typed(t, 0)

\* The rets call returns: c.rets, or when that is nil the zero value of each
\* result type (call.go:249-257).
Results(c) ==
    IF rets[c] = << >>
    THEN [i \in 1..Len(outTypes(c)) |-> ZeroOf(outTypes(c)[i])]
    ELSE rets[c]

\* Running the packaged action: doFunc is called; when it is a function that
\* invokes a mocked method, that invocation is now wanted (it is followed
\* within the bounds on nesting and on the number of calls).
RunFn(act) ==
    /\ ran' = [ran EXCEPT ![act.c] = @ + 1]
    /\ want' = IF /\ act.fn \in Expectations
                  /\ Len(stack) < MaxDepth /\ numCalls[act.fn] < MaxNumCalls
               THEN act.fn ELSE 0

\* A plausible slip: the bindings are written only when no action is set.
callSetsUnlessDo(c, a) ==
    /\ numCalls[c] < MaxNumCalls
    /\ numCalls' = [numCalls EXCEPT ![c] = @ + 1]
    /\ \E ord \in RangeOrders(setArgs[c]) :
          LET r == IF doFunc[c] # InvalidFunc
                   THEN [mem |-> mem, panic |-> FALSE]
                   ELSE SetThrough(mem, setArgs[c], a, ord, 1)
          IN  /\ mem' = r.mem
              /\ failed' = r.panic
              /\ action' = IF doFunc[c] # InvalidFunc /\ ~r.panic
                           THEN Closure(c, doFunc[c], a) ELSE NilAction
              /\ last' = [Op("call", c, Len(a),
                             IF r.panic THEN Err("panic", 0) ELSE NoErr, << >>)
                             EXCEPT !.rets = IF r.panic THEN << >> ELSE Results(c)]
    /\ UNCHANGED <<minCalls, maxCalls, preReqs, phase, ran, want>>

\* A plausible slip: call runs the action itself and returns none.
callRunsAction(c, a) ==
    /\ numCalls[c] < MaxNumCalls
    /\ numCalls' = [numCalls EXCEPT ![c] = @ + 1]
    /\ \E ord \in RangeOrders(setArgs[c]) :
          LET r == SetThrough(mem, setArgs[c], a, ord, 1)
          IN  /\ mem' = r.mem
              /\ failed' = r.panic
              /\ action' = NilAction
              /\ last' = [Op("call", c, Len(a),
                             IF r.panic THEN Err("panic", 0) ELSE NoErr, << >>)
                             EXCEPT !.rets = IF r.panic THEN << >> ELSE Results(c)]
              /\ IF doFunc[c] # InvalidFunc /\ ~r.panic
                 THEN RunFn(Closure(c, doFunc[c], a))
                 ELSE UNCHANGED <<ran, want>>
    /\ UNCHANGED <<minCalls, maxCalls, preReqs, phase>>

call(c, a) ==
    /\ numCalls[c] < MaxNumCalls
    /\ numCalls' = [numCalls EXCEPT ![c] = @ + 1]
    /\ \E ord \in RangeOrders(setArgs[c]) :
          LET r == SetThrough(mem, setArgs[c], a, ord, 1)
          IN  /\ mem' = r.mem
              /\ failed' = r.panic
              /\ action' = IF doFunc[c] # InvalidFunc /\ ~r.panic
                           THEN Closure(c, doFunc[c], a) ELSE NilAction
              /\ last' = [Op("call", c, Len(a),
                             IF r.panic THEN Err("panic", 0) ELSE NoErr, << >>)
                             EXCEPT !.rets = IF r.panic THEN << >> ELSE Results(c)]
    /\ UNCHANGED <<minCalls, maxCalls, preReqs, phase, ran, want>>

(***************************************************************************)
(* The controller: declaration is complete before invocation begins, and   *)
(* call is run only on an expectation that is not exhausted and whose      *)
(* matches returned nil.                                                   *)
(***************************************************************************)
Begin ==
    /\ Declaring
    /\ phase' = "invoke"
    /\ last' = Op("begin", 0, 0, NoErr, << >>)
    /\ UNCHANGED <<minCalls, maxCalls, numCalls, preReqs, failed>>

Accepts(c, a) == ~exhausted(c) /\ matches(c, a) = NoErr

Invoke(c, a) ==
    /\ phase = "invoke"
    /\ Accepts(c, a)
    /\ call(c, a)

(***************************************************************************)
(* Specifications.  SpecBounds runs the bound-setting operations alone,    *)
(* SpecOrder the ordering operations alone, both without limit on their    *)
(* number.  Spec is a whole test: at most MaxDecl declaration calls, then  *)
(* the controller's invocation phase.                                      *)
(***************************************************************************)
\* The history after a step: the graph as it stood when invocation began,
\* and whether some expectation lost prerequisites before its first call.
Observe ==
    [wired |-> IF phase = "declare" /\ phase' = "invoke"
               THEN preReqs ELSE hist.wired,
     early |-> \/ hist.early
               \/ /\ phase = "invoke"
                  /\ \E c \in Expectations :
                        /\ numCalls[c] = 0
                        /\ preReqs[c] # << >> /\ preReqs'[c] = << >>]

\* What the specifications without Do and SetArg leave alone: no action and
\* no binding is declared in them, so that call returns the nil action and
\* writes nothing, and the controller's step is taken as one.
actVars == <<doFunc, setArgs, rets, mem, action, ran, want, lock, stack>>

\* Steps of the specifications that keep no history.
Free(A) == A /\ UNCHANGED <<ndecl, hist>> /\ UNCHANGED actVars

Decl(A) ==
    /\ ndecl < MaxDecl /\ ndecl' = ndecl + 1
    /\ A /\ UNCHANGED hist /\ UNCHANGED actVars

\* Steps of the specification that records the history.
Traced(A) == A /\ UNCHANGED ndecl /\ hist' = Observe /\ UNCHANGED actVars

TracedDecl(A) ==
    /\ ndecl < MaxDecl /\ ndecl' = ndecl + 1
    /\ A /\ hist' = Observe /\ UNCHANGED actVars

NextBounds ==
    \/ \E c \in Expectations : Free(AnyTimes(c))
    \/ \E c \in Expectations, n \in TimesArgs : Free(MinTimes(c, n))
    \/ \E c \in Expectations, n \in TimesArgs : Free(MaxTimes(c, n))
    \/ \E c \in Expectations, n \in TimesArgs : Free(Times(c, n))

SpecBounds == Init /\ [][NextBounds]_vars

NextOrder ==
    \/ \E c, p \in Expectations : Free(After(c, p))
    \/ \E calls \in InOrderArgs : Free(InOrder(calls))
    \/ \E c \in Expectations : Free(dropPrereqs(c))

SpecOrder == Init /\ [][NextOrder]_vars

Next ==
    \/ \E c \in Expectations : Decl(AnyTimes(c))
    \/ \E c \in Expectations, n \in TimesArgs : Decl(MinTimes(c, n))
    \/ \E c \in Expectations, n \in TimesArgs : Decl(MaxTimes(c, n))
    \/ \E c \in Expectations, n \in TimesArgs : Decl(Times(c, n))
    \/ \E c, p \in Expectations : Decl(After(c, p))
    \/ \E calls \in InOrderArgs : Decl(InOrder(calls))
    \/ Free(Begin)
    \/ \E c \in Expectations : phase = "invoke" /\ Free(dropPrereqs(c))
    \/ \E c \in Expectations, a \in ActualArgs : Free(Matches(c, a))
    \/ \E c \in Expectations, a \in ActualArgs : Free(Invoke(c, a))

Spec == Init /\ [][Next]_vars

\* Ordered expectations with a history of the declared edges: declaration of
\* lower bounds and edges, then accepted invocations and dropPrereqs.
NextTraced ==
    \/ \E c \in Expectations : TracedDecl(AnyTimes(c))
    \/ \E c \in Expectations, n \in TimesArgs : TracedDecl(MinTimes(c, n))
    \/ \E c, p \in Expectations : TracedDecl(After(c, p))
    \/ \E calls \in InOrderArgs : TracedDecl(InOrder(calls))
    \/ Traced(Begin)
    \/ \E c \in Expectations : phase = "invoke" /\ Traced(dropPrereqs(c))
    \/ \E c \in Expectations, a \in ActualArgs : Traced(Invoke(c, a))

SpecTraced == Init /\ [][NextTraced]_vars

(***************************************************************************)
(* The controller with its mutex.  An invocation waits for the mutex,      *)
(* scans with matches and runs call while holding it, releases it, and     *)
(* only then runs the action call returned.  A running action that invokes *)
(* a mocked method is suspended until that inner invocation has returned.  *)
(***************************************************************************)
Frame(c, a, pc, act) == [c |-> c, a |-> a, pc |-> pc, act |-> act]

Top == stack[Len(stack)]

Running == phase = "invoke" /\ ~failed

\* The innermost invocation moves on to position pc, holding action act.
Advance(pc, act) ==
    stack' = [stack EXCEPT ![Len(stack)] = Frame(@.c, @.a, pc, act)]

\* Arguments the Matchers of d accept.
FitArgs(d) == CHOOSE a \in ActualArgs : ArgsFit(d, a)

CtlInvoke(c, a) ==
    /\ Running /\ stack = << >> /\ want = 0
    /\ numCalls[c] < MaxNumCalls
    /\ stack' = << Frame(c, a, "lock", NilAction) >>
    /\ UNCHANGED <<minCalls, maxCalls, numCalls, preReqs, phase, failed, last,
                   mem, action, ran, want, lock>>

CtlReenter ==
    /\ Running /\ want # 0
    /\ stack' = Append(stack, Frame(want, FitArgs(want), "lock", NilAction))
    /\ want' = 0
    /\ UNCHANGED <<minCalls, maxCalls, numCalls, preReqs, phase, failed, last,
                   mem, action, ran, lock>>

CtlAcquire ==
    /\ Running /\ want = 0 /\ stack # << >> /\ Top.pc = "lock"
    /\ ~lock
    /\ lock' = TRUE
    /\ Advance("scan", NilAction)
    /\ UNCHANGED <<minCalls, maxCalls, numCalls, preReqs, phase, failed, last,
                   mem, action, ran, want>>

CtlCall ==
    /\ Running /\ want = 0 /\ stack # << >> /\ Top.pc = "scan"
    /\ Accepts(Top.c, Top.a)
    /\ call(Top.c, Top.a)
    /\ Advance("unlock", action')
    /\ UNCHANGED lock

CtlReject ==
    /\ Running /\ want = 0 /\ stack # << >> /\ Top.pc = "scan"
    /\ ~Accepts(Top.c, Top.a)
    /\ last' = Op("reject", Top.c, Len(Top.a), matches(Top.c, Top.a), << >>)
    /\ Advance("unlock", NilAction)
    /\ UNCHANGED <<minCalls, maxCalls, numCalls, preReqs, phase, failed,
                   mem, action, ran, want, lock>>

CtlRelease ==
    /\ Running /\ want = 0 /\ stack # << >> /\ Top.pc = "unlock"
    /\ lock' = FALSE
    /\ Advance("act", Top.act)
    /\ UNCHANGED <<minCalls, maxCalls, numCalls, preReqs, phase, failed, last,
                   mem, action, ran, want>>

CtlRun ==
    /\ Running /\ want = 0 /\ stack # << >> /\ Top.pc = "act"
    /\ Top.act # NilAction
    /\ RunFn(Top.act)
    /\ Advance("ret", NilAction)
    /\ last' = Op("action", Top.c, Len(Top.act.doArgs), NoErr, << >>)
    /\ UNCHANGED <<minCalls, maxCalls, numCalls, preReqs, phase, failed,
                   mem, action, lock>>

CtlReturn ==
    /\ Running /\ want = 0 /\ stack # << >>
    /\ \/ Top.pc = "ret"
       \/ Top.pc = "act" /\ Top.act = NilAction
    /\ stack' = SubSeq(stack, 1, Len(stack) - 1)
    /\ UNCHANGED <<minCalls, maxCalls, numCalls, preReqs, phase, failed, last,
                   mem, action, ran, want, lock>>

\* The argument lists the test invokes c's method with here: those its Matchers
\* accept (Spec has the others, which are rejected and change nothing).
TestArgs(c) == {a \in ActualArgs : ArgsFit(c, a)}

\* Steps of the specification with actions: declarations, then the controller.
ActDecl(A) ==
    /\ ndecl < MaxDecl /\ ndecl' = ndecl + 1
    /\ A /\ UNCHANGED <<hist, mem, action, ran, want, lock, stack>>

Ctl(A) == A /\ UNCHANGED <<ndecl, hist, doFunc, setArgs, rets>>

NextAct ==
    \/ \E c \in Expectations : Decl(AnyTimes(c))
    \/ \E c \in Expectations, f \in Funcs : ActDecl(Do(c, f))
    \/ \E c \in Expectations, n \in SetArgIndices, v \in SetValues :
          ActDecl(SetArg(c, n, v))
    \/ \E c \in Expectations, r \in ReturnArgs : ActDecl(Return(c, r))
    \/ Free(Begin)
    \/ \E c \in Expectations : \E a \in TestArgs(c) : Ctl(CtlInvoke(c, a))
    \/ Ctl(CtlReenter)
    \/ Ctl(CtlAcquire)
    \/ Ctl(CtlCall)
    \/ Ctl(CtlReject)
    \/ Ctl(CtlRelease)
    \/ Ctl(CtlRun)
    \/ Ctl(CtlReturn)

SpecAct == Init /\ [][NextAct]_vars

\* A test that declares and then keeps invoking: whenever the controller would
\* accept an invocation of an expectation, the test eventually makes one.
NextLive ==
    \/ \E c \in Expectations : Decl(AnyTimes(c))
    \/ \E c \in Expectations, n \in TimesArgs : Decl(MinTimes(c, n))
    \/ \E c \in Expectations, n \in TimesArgs : Decl(MaxTimes(c, n))
    \/ \E c \in Expectations, n \in TimesArgs : Decl(Times(c, n))
    \/ \E c, p \in Expectations : Decl(After(c, p))
    \/ \E calls \in InOrderArgs : Decl(InOrder(calls))
    \/ Free(Begin)
    \/ \E c \in Expectations : phase = "invoke" /\ Free(dropPrereqs(c))
    \/ \E c \in Expectations, a \in ActualArgs : Free(Invoke(c, a))

SpecLive ==
    /\ Init /\ [][NextLive]_vars
    /\ \A c \in Expectations :
          WF_vars(\E a \in ActualArgs : Free(Invoke(c, a)))

(***************************************************************************)
(* Vocabulary of the properties.                                           *)
(***************************************************************************)
\* The direct prerequisites of c, as a set.
DirectPre(c) == {preReqs[c][i] : i \in 1..Len(preReqs[c])}

\* Everything reachable from the set S along prerequisite edges in <= k steps.
RECURSIVE PreWithin(_, _)
PreWithin(S, k) ==
    IF k = 0 THEN S
    ELSE PreWithin(S \cup UNION {DirectPre(x) : x \in S}, k - 1)

\* The direct and transitive prerequisites of c.
TransPre(c) == PreWithin(DirectPre(c), NumExpect)

(***************************************************************************)
(* C1.  After every sequence of AnyTimes, MinTimes(n), MaxTimes(n) and     *)
(* Times(n), n >= 0, from the default bounds [1, 1], every expectation has *)
(* 0 <= minCalls <= maxCalls.                                              *)
(* Refuted under SpecBounds: MaxTimes(0) then MinTimes(1) leaves [1, 0].   *)
(***************************************************************************)
C1_BoundsOrdered ==
    \A c \in Expectations : 0 <= minCalls[c] /\ minCalls[c] <= maxCalls[c]

(***************************************************************************)
(* C2.  MinTimes(n) sets minCalls = n; on default bounds [1, 1] it yields  *)
(* [n, Infinity]; called right after MaxTimes(m) on the same expectation,  *)
(* for every m including 1, it leaves maxCalls = m.                        *)
(* Refuted under SpecBounds: MaxTimes(1) then MinTimes(n) yields           *)
(* [n, Infinity].                                                          *)
(***************************************************************************)
C2_MinTimesKeepsMax ==
    [][\A c \in Expectations, n \in TimesArgs :
          MinTimes(c, n) =>
             /\ minCalls'[c] = n
             /\ (minCalls[c] = 1 /\ maxCalls[c] = 1)
                   => maxCalls'[c] = Infinity
             /\ (last.op = "MaxTimes" /\ last.c = c)
                   => maxCalls'[c] = last.n]_vars

(***************************************************************************)
(* C3.  MaxTimes(n) sets maxCalls = n; on default bounds [1, 1] it lowers  *)
(* minCalls to 0; called right after MinTimes(k) on                        *)
(* the same expectation, for every k including 1, it leaves minCalls = k.  *)
(* Refuted under SpecBounds: MinTimes(1) then MaxTimes(n) yields [0, n].   *)
(***************************************************************************)
C3_MaxTimesKeepsMin ==
    [][\A c \in Expectations, n \in TimesArgs :
          MaxTimes(c, n) =>
             /\ maxCalls'[c] = n
             /\ (minCalls[c] = 1 /\ maxCalls[c] = 1)
                   => minCalls'[c] = 0
             /\ (last.op = "MinTimes" /\ last.c = c)
                   => minCalls'[c] = last.n]_vars

(***************************************************************************)
(* C4.  Times(n) sets the bounds to exactly [n, n] whatever they were.     *)
(* Under the controller every accepted invocation finds numCalls below     *)
(* maxCalls and raises it by one, an exhausted expectation accepts no      *)
(* invocation, and numCalls never exceeds maxCalls.                        *)
(***************************************************************************)
C4_TimesExact ==
    /\ [][\A c \in Expectations, n \in TimesArgs :
             Times(c, n) => minCalls'[c] = n /\ maxCalls'[c] = n]_vars
    /\ [][\A c \in Expectations, a \in ActualArgs :
             Invoke(c, a) =>
                /\ numCalls[c] < maxCalls[c]
                /\ numCalls'[c] = numCalls[c] + 1
                /\ numCalls'[c] <= maxCalls'[c]]_vars
    /\ [](\A c \in Expectations :
             /\ numCalls[c] <= maxCalls[c]
             /\ numCalls[c] >= maxCalls[c]
                   => \A a \in ActualArgs : ~ENABLED Invoke(c, a))

\* Times(2) was declared and exactly two invocations have been accepted.
C4_Witness ==
    \E c \in Expectations :
        /\ minCalls[c] = 2 /\ maxCalls[c] = 2 /\ numCalls[c] = 2
        /\ last.op = "call" /\ last.c = c

(***************************************************************************)
(* C5.  AnyTimes yields the bounds [0, Infinity] whatever the bounds were  *)
(* before, and the expectation is then satisfied with zero invocations.    *)
(***************************************************************************)
C5_AnyTimesBounds ==
    [][\A c \in Expectations :
          AnyTimes(c) =>
             /\ minCalls'[c] = 0 /\ maxCalls'[c] = Infinity
             /\ numCalls'[c] = 0 /\ satisfied(c)']_vars

\* AnyTimes has run on an expectation whose bounds another call had changed
\* (the last operation is AnyTimes, so some expectation was changed before).
C5_Witness ==
    /\ last.op = "AnyTimes"
    /\ minCalls[last.c] = 0 /\ maxCalls[last.c] = Infinity
    /\ \E d \in Expectations : d # last.c /\ minCalls[d] = 2 /\ maxCalls[d] = 2

(***************************************************************************)
(* C6.  matches on an expectation returns an error whenever one of its     *)
(* prerequisites has numCalls < minCalls, also for an invocation whose     *)
(* arity and arguments fit; once every prerequisite has numCalls >=        *)
(* minCalls, matches accepts the fitting invocation.                       *)
(***************************************************************************)
C6_PrereqGate ==
    \A c \in Expectations, a \in ActualArgs :
        /\ (\E p \in DirectPre(c) : numCalls[p] < minCalls[p])
              => matches(c, a) # NoErr
        /\ (ArgsFit(c, a) /\ \A p \in DirectPre(c) : numCalls[p] >= minCalls[p])
              => matches(c, a) = NoErr

\* matches has accepted an expectation whose prerequisite needed calls and
\* has received exactly as many.
C6_Witness ==
    /\ last.op = "matches" /\ last.err = NoErr
    /\ \E p \in DirectPre(last.c) : minCalls[p] >= 1 /\ numCalls[p] = minCalls[p]

(***************************************************************************)
(* C7.  After's comment: the call may only match after preReq has been     *)
(* exhausted, that is, matches returns an error whenever some prerequisite *)
(* has numCalls < maxCalls.                                                *)
(* Refuted under Spec: matches tests satisfied(), not exhausted().         *)
(***************************************************************************)
C7_MatchOnlyAfterExhausted ==
    phase = "invoke" =>
        \A c \in Expectations, a \in ActualArgs :
            (\E p \in DirectPre(c) : numCalls[p] < maxCalls[p])
                => matches(c, a) # NoErr

(***************************************************************************)
(* C8.  After any sequence of After, InOrder and dropPrereqs the           *)
(* prerequisite relation is acyclic: no expectation is a direct or         *)
(* transitive prerequisite of itself.                                      *)
(***************************************************************************)
C8_Acyclic == \A c \in Expectations : c \notin TransPre(c)

\* An After that would have closed a loop through other expectations was
\* reported, and the edges wired before it are still there.
C8_Witness ==
    /\ failed /\ last.op = "After" /\ last.c # last.n
    /\ last.c \in TransPre(last.n)

(***************************************************************************)
(* C9.  c.After(preReq) with preReq = c, or with c already a direct or     *)
(* transitive prerequisite of preReq, reports a fatal error and leaves     *)
(* every expectation's prerequisites as they were.                         *)
(***************************************************************************)
C9_RejectedAfterKeepsGraph ==
    [][\A c, p \in Expectations :
          (After(c, p) /\ (c = p \/ c \in TransPre(p)))
             => failed' /\ preReqs' = preReqs]_vars

\* A self-prerequisite was reported on an expectation that has prerequisites.
C9_Witness ==
    /\ failed /\ last.op = "After" /\ last.c = last.n
    /\ DirectPre(last.c) # {}

(***************************************************************************)
(* C10.  matches returns an error whenever the number of actual arguments  *)
(* differs from the number of Matchers, whatever the arguments are and     *)
(* whether or not the prerequisites are satisfied.                         *)
(***************************************************************************)
C10_ArityRejected ==
    \A c \in Expectations, a \in ActualArgs :
        Len(a) # Len(args(c)) => matches(c, a) # NoErr

\* matches has reported too many arguments for an expectation whose
\* prerequisites are all satisfied.
C10_Witness ==
    /\ last.op = "matches" /\ last.err.kind = "arity"
    /\ last.n > Len(args(last.c))
    /\ DirectPre(last.c) # {}
    /\ \A p \in DirectPre(last.c) : satisfied(p)

(***************************************************************************)
(* C11.  Every increment of numCalls is the call of an invocation that     *)
(* matches accepted: the step is an accepted invocation of one expectation *)
(* whose arity and arguments fit and whose prerequisites are satisfied,    *)
(* and it raises that expectation's numCalls by one and no other's.  No    *)
(* other step changes numCalls.                                            *)
(***************************************************************************)
C11_MatchBeforeCall ==
    [][/\ numCalls' # numCalls
             => \E c \in Expectations, a \in ActualArgs : Invoke(c, a)
       /\ \A c \in Expectations, a \in ActualArgs :
             Invoke(c, a) =>
                /\ ArgsFit(c, a)
                /\ \A p \in DirectPre(c) : numCalls[p] >= minCalls[p]
                /\ numCalls' = [numCalls EXCEPT ![c] = @ + 1]]_vars

\* An expectation with prerequisites has been called.
C11_Witness ==
    /\ last.op = "call" /\ numCalls[last.c] >= 1
    /\ DirectPre(last.c) # {}

(***************************************************************************)
(* C12.  For every output binding stored by SetArg(n, v), a call that      *)
(* returns has written v through its n-th actual argument by the time it   *)
(* returns, whether or not an action is set, and before any deferred       *)
(* action is run.                                                          *)
(***************************************************************************)
C12_BindingsWritten ==
    [][(CtlCall /\ ~failed')
          => /\ \A n \in Bound(setArgs[Top.c]) :
                   mem'[Top.a[n + 1]] = setArgs[Top.c][n]
             /\ ran' = ran]_vars

\* A call on an expectation with an action and a binding has returned, the
\* bound value is in the caller's variable, and the action has not been run.
C12_Witness ==
    /\ stack # << >> /\ Top.pc = "unlock" /\ last.op = "call"
    /\ Top.act # NilAction /\ ran[Top.c] = 0
    /\ \E n \in Bound(setArgs[Top.c]) :
          mem[Top.a[n + 1]] = setArgs[Top.c][n]

(***************************************************************************)
(* C13.  call never runs the declared action itself: a call that returns   *)
(* leaves the action's effects undone and returns the action as a deferred *)
(* unit when one is set and no unit when none is set; the effects occur    *)
(* only in the step in which the caller runs a unit call returned.         *)
(***************************************************************************)
C13_ActionDeferred ==
    /\ [][(CtlCall /\ ~failed')
             => /\ ran' = ran /\ want' = want
                /\ action' = IF doFunc[Top.c] # InvalidFunc
                             THEN Closure(Top.c, doFunc[Top.c], Top.a)
                             ELSE NilAction]_vars
    /\ [][ran' # ran
             => /\ CtlRun /\ Top.act # NilAction
                /\ ran' = [ran EXCEPT ![Top.act.c] = @ + 1]]_vars
    /\ [](\A c \in Expectations : ran[c] <= numCalls[c])

\* The caller has run the action of an expectation after its call returned.
C13_Witness ==
    /\ last.op = "action" /\ ran[last.c] = 1 /\ numCalls[last.c] = 1
    /\ stack # << >> /\ Top.pc = "ret"

(***************************************************************************)
(* C14.  The controller holds its lock exactly while an invocation scans   *)
(* with matches and runs call, and runs the deferred action with the lock  *)
(* released.  An invocation in progress can always take a step, also when  *)
(* it was made by a running action, and such a reentrant invocation finds  *)
(* the numCalls increment of the outer call applied.                       *)
(***************************************************************************)
\* Some step of the controller.
CtlStep ==
    \/ Ctl(CtlReenter)
    \/ Ctl(CtlAcquire)
    \/ Ctl(CtlCall)
    \/ Ctl(CtlReject)
    \/ Ctl(CtlRelease)
    \/ Ctl(CtlRun)
    \/ Ctl(CtlReturn)

C14_LockAndReentry ==
    /\ [](lock <=> (stack # << >> /\ Top.pc \in {"scan", "unlock"}))
    /\ [][CtlRun => ~lock /\ ~lock']_vars
    /\ []((Running /\ (stack # << >> \/ want # 0)) => ENABLED CtlStep)
    /\ [](\A i \in 1..(Len(stack) - 1) :
             /\ stack[i].pc = "ret"
             /\ numCalls[stack[i].c] >= 1
             /\ ran[stack[i].c] >= 1)

\* The action of an expectation invoked the same mocked method again; the
\* inner invocation took the lock and was rejected, the expectation being
\* exhausted by the outer call.
C14_Witness ==
    /\ Len(stack) = 2 /\ Top.pc = "unlock" /\ lock
    /\ stack[1].c = Top.c /\ last.op = "reject"
    /\ numCalls[Top.c] = 1 /\ maxCalls[Top.c] = 1

(***************************************************************************)
(* C15.  matches is fail-fast in the order arity, argument positions in    *)
(* increasing index, prerequisites in insertion order: it returns the      *)
(* arity error if the counts differ, otherwise the error of the lowest     *)
(* failing argument index, otherwise the error of the first unsatisfied    *)
(* prerequisite, and nil exactly when all three checks pass.               *)
(***************************************************************************)
\* The positions of invocation a that c's Matchers reject (same arity).
BadArgs(c, a) == {i \in 1..Len(args(c)) : a[i] \notin args(c)[i]}

\* The positions of c.preReqs that hold an unsatisfied prerequisite.
BadPres(c) ==
    {j \in 1..Len(preReqs[c]) : numCalls[preReqs[c][j]] < minCalls[preReqs[c][j]]}

\* The least element of a non-empty set of numbers.
Least(S) == CHOOSE x \in S : \A y \in S : x <= y

C15_FailFastOrder ==
    \A c \in Expectations, a \in ActualArgs :
        IF Len(a) # Len(args(c))
        THEN matches(c, a).kind = "arity"
        ELSE IF BadArgs(c, a) # {}
        THEN matches(c, a) = Err("arg", Least(BadArgs(c, a)) - 1)
        ELSE IF BadPres(c) # {}
        THEN matches(c, a) = Err("prereq", preReqs[c][Least(BadPres(c))])
        ELSE matches(c, a) = NoErr

\* matches has reported an argument while a prerequisite of the expectation
\* was unsatisfied too.
C15_Witness ==
    /\ last.op = "matches" /\ last.err = Err("arg", 0)
    /\ Len(args(last.c)) = 2
    /\ BadPres(last.c) # {}

(***************************************************************************)
(* C16.  InOrder(c0, ..., ck) on distinct expectations without edges adds  *)
(* exactly the edges ci -> c(i-1), i in 1..k, and does not fail.  While    *)
(* the graph is such a chain and its members keep the default bounds       *)
(* [1, 1], the controller accepts the members in the order c0, ..., ck     *)
(* only: the called members form a prefix of the chain, each called once,  *)
(* and the one member an invocation is accepted for is the next in line.   *)
(***************************************************************************)
\* The argument lists of InOrder that name pairwise distinct expectations.
DistinctCalls ==
    {calls \in InOrderArgs :
        \A i, j \in 1..Len(calls) : i # j => calls[i] # calls[j]}

\* The graph with the edges calls[i] -> calls[i-1] and no others.
Chain(calls) ==
    [c \in Expectations |->
        IF \E i \in 2..Len(calls) : calls[i] = c
        THEN << calls[(CHOOSE i \in 2..Len(calls) : calls[i] = c) - 1] >>
        ELSE << >>]

\* The members of calls have the bounds a fresh Call has.
DefaultBounds(calls) ==
    \A i \in 1..Len(calls) : minCalls[calls[i]] = 1 /\ maxCalls[calls[i]] = 1

C16_InOrderChain ==
    /\ [][\A calls \in DistinctCalls :
             (InOrder(calls) /\ \A c \in Expectations : preReqs[c] = << >>)
                => (preReqs' = Chain(calls) /\ ~failed')]_vars
    /\ [](\A calls \in DistinctCalls :
             (phase = "invoke" /\ preReqs = Chain(calls) /\ DefaultBounds(calls))
                => \A i \in 1..Len(calls) :
                      /\ numCalls[calls[i]] <= 1
                      /\ \A j \in 1..Len(calls) :
                            i < j => numCalls[calls[j]] <= numCalls[calls[i]]
                      /\ (\E a \in ActualArgs : Accepts(calls[i], a))
                            <=> /\ numCalls[calls[i]] = 0
                                /\ \A j \in 1..(i - 1) : numCalls[calls[j]] = 1)

\* A chain of three has been called through to its last member.
C16_Witness ==
    \E calls \in DistinctCalls :
        /\ Len(calls) = 3 /\ preReqs = Chain(calls) /\ DefaultBounds(calls)
        /\ \A i \in 1..3 : numCalls[calls[i]] = 1
        /\ last.op = "call" /\ last.c = calls[3]

(***************************************************************************)
(* C17.  dropPrereqs on c returns exactly the direct prerequisites c has   *)
(* at that moment and leaves c with none, so that matches on c no longer   *)
(* fails on a prerequisite; the bounds and numCalls of every expectation   *)
(* and the prerequisites of every other expectation are unchanged.  During *)
(* invocation nothing gives c a prerequisite again.                        *)
(***************************************************************************)
C17_DropPrereqsFrame ==
    /\ [][\A c \in Expectations :
             dropPrereqs(c) =>
                /\ last'.pre = preReqs[c]
                /\ preReqs'[c] = << >>
                /\ \A a \in ActualArgs : (matches(c, a).kind # "prereq")'
                /\ \A d \in Expectations \ {c} : preReqs'[d] = preReqs[d]
                /\ UNCHANGED <<minCalls, maxCalls, numCalls>>]_vars
    /\ [][\A c \in Expectations :
             (phase = "invoke" /\ preReqs[c] = << >>) => preReqs'[c] = << >>]_vars

\* An expectation that had an unsatisfied prerequisite has dropped it and
\* now accepts an invocation.
C17_Witness ==
    /\ last.op = "dropPrereqs" /\ preReqs[last.c] = << >>
    /\ \E j \in 1..Len(last.pre) : numCalls[last.pre[j]] < minCalls[last.pre[j]]
    /\ \E a \in ActualArgs : matches(last.c, a) = NoErr

(***************************************************************************)
(* C18.  From the default bounds [1, 1], MinTimes(n) then MaxTimes(m) and  *)
(* MaxTimes(m) then MinTimes(n) end in the same bounds [n, m] when n # 1   *)
(* and m # 1, and in different bounds when n = 1 or m = 1.                 *)
(***************************************************************************)
\* The bounds of a fresh Call.
FreshBounds == [min |-> 1, max |-> 1]

MinThenMax(b, n, m) == MaxTimesOn(MinTimesOn(b, n), m)

MaxThenMin(b, n, m) == MinTimesOn(MaxTimesOn(b, m), n)

C18_MinMaxOrder ==
    \A c \in Expectations, n, m \in TimesArgs :
        Bounds(c) = FreshBounds =>
           /\ (n # 1 /\ m # 1)
                 => /\ MinThenMax(Bounds(c), n, m) = [min |-> n, max |-> m]
                    /\ MaxThenMin(Bounds(c), n, m) = [min |-> n, max |-> m]
           /\ (n = 1 \/ m = 1)
                 => MinThenMax(Bounds(c), n, m) # MaxThenMin(Bounds(c), n, m)

\* Two expectations were given the same two bounds in the two orders, one of
\* the bounds being 1, and ended differently; a third is still fresh.
C18_Witness ==
    \E c, d, e \in Expectations, n, m \in TimesArgs :
        /\ c # d /\ (n = 1 \/ m = 1) /\ Bounds(e) = FreshBounds
        /\ Bounds(c) = MinThenMax(FreshBounds, n, m)
        /\ Bounds(d) = MaxThenMin(FreshBounds, n, m)
        /\ Bounds(c) # Bounds(d)
        /\ last = Op("MinTimes", d, n, NoErr, << >>)

(***************************************************************************)
(* C19.  Ordering is transitive when every expectation has minCalls >= 1:  *)
(* with declaration complete before invocation and calls made only after   *)
(* matches succeeded, at every call of an expectation each of its declared *)
(* direct and transitive prerequisites has numCalls >= minCalls, also      *)
(* when an owner's prerequisites were dropped after the owner was called.  *)
(***************************************************************************)
\* Everything reachable from the set S along declared edges in <= k steps.
RECURSIVE WiredWithin(_, _)
WiredWithin(S, k) ==
    IF k = 0 THEN S
    ELSE WiredWithin(
             S \cup UNION {{hist.wired[x][i] : i \in 1..Len(hist.wired[x])} : x \in S},
             k - 1)

\* The declared direct and transitive prerequisites of c.
WiredPre(c) ==
    WiredWithin({hist.wired[c][i] : i \in 1..Len(hist.wired[c])}, NumExpect)

C19_TransitiveOrder ==
    [][\A c \in Expectations, a \in ActualArgs :
          (/\ Invoke(c, a)
           /\ ~hist.early
           /\ \A e \in Expectations : minCalls[e] >= 1)
             => \A p \in WiredPre(c) : numCalls[p] >= minCalls[p]]_vars

\* An expectation was called whose direct prerequisite had been called and
\* had then dropped its own prerequisite.
C19_Witness ==
    /\ last.op = "call" /\ ~hist.early
    /\ \A e \in Expectations : minCalls[e] >= 1
    /\ \E p \in Expectations :
          /\ hist.wired[last.c] = << p >>
          /\ hist.wired[p] # << >> /\ preReqs[p] = << >>
          /\ \A q \in WiredPre(last.c) : numCalls[q] >= 1

(***************************************************************************)
(* C20.  The prerequisite graph never deadlocks.  In every state of the    *)
(* invocation phase reached from declarations with 0 <= minCalls <=        *)
(* maxCalls, if some expectation is unsatisfied then some unsatisfied      *)
(* expectation is not exhausted and has all its prerequisites satisfied,   *)
(* so that an invocation with matching arguments is accepted for it; and   *)
(* when accepted invocations are made fairly, every expectation is         *)
(* eventually satisfied.                                                   *)
(***************************************************************************)
\* Every expectation was declared with 0 <= minCalls <= maxCalls.
BoundsOrdered ==
    \A c \in Expectations : 0 <= minCalls[c] /\ minCalls[c] <= maxCalls[c]

AllSatisfied == \A c \in Expectations : numCalls[c] >= minCalls[c]

C20_NoDeadlock ==
    /\ []((phase = "invoke" /\ BoundsOrdered /\ ~AllSatisfied)
            => \E c \in Expectations :
                  /\ numCalls[c] < minCalls[c]
                  /\ numCalls[c] < maxCalls[c]
                  /\ \A p \in DirectPre(c) : numCalls[p] >= minCalls[p]
                  /\ \E a \in ActualArgs : ArgsFit(c, a) /\ ENABLED Invoke(c, a))
    /\ ((phase = "invoke" /\ BoundsOrdered) ~> AllSatisfied)

\* Ordered expectations, one of them asked for twice, have all been called
\* as often as they had to be.
C20_Witness ==
    /\ phase = "invoke" /\ BoundsOrdered /\ AllSatisfied
    /\ last.op = "call" /\ DirectPre(last.c) # {}
    /\ \E c \in Expectations : minCalls[c] = 2

=============================================================================
